---- MODULE Spec2Model ----
(***************************************************************************)
(* Model of the Rust workspace template: the text utilities                *)
(* ({{PROJECT_NAME}}_utils::string), the configuration model               *)
(* ({{PROJECT_NAME}}_core::types), the command-line dispatcher             *)
(* ({{PROJECT_NAME}}_cli main) and the build helper (xtask main).          *)
(*                                                                         *)
(* Text is a sequence of tokens.  User-supplied text is a sequence of      *)
(* characters, each character a string: an ASCII character is itself, any  *)
(* other is named by its code point ("U+00DF").  A format literal is one   *)
(* token, so format!("a {}", x) is <<"a ">> \o x.                          *)
(***************************************************************************)
EXTENDS Naturals, Sequences, FiniteSets

VARIABLES
    prog,       \* which entry point runs: "cli", "xtask" or "lib" (unit-level calls)
    cli,        \* the parsed Cli struct: debug, config, command, name, input
    task,       \* xtask: env::args().nth(1), an Option
    pc,         \* position in the running main
    config,     \* cli main's local `config`, an Option (empty before it is bound)
    result,     \* the Result main is about to return
    stdout,     \* lines printed to the standard output, in order
    stderr,     \* lines printed to the standard error, in order
    exit_code,  \* the process exit code, an Option (empty while running)
    spawned,    \* xtask: the subprocesses started, in order, with their outcome
    ret         \* lib: the last library call, its argument and its return value

vars == <<prog, cli, task, pc, config, result, stdout, stderr, exit_code, spawned, ret>>

---------------------------------------------------------------------------
(* Bounds *)

MaxLen == 2
MaxExitCode == 1
MaxConcurrentArg == 2

---------------------------------------------------------------------------
(* Characters and the std::char operations the utilities call *)

LowerAscii == << "a", "b", "c", "d", "e", "f", "g", "h", "i", "j", "k", "l", "m",
                 "n", "o", "p", "q", "r", "s", "t", "u", "v", "w", "x", "y", "z" >>
UpperAscii == << "A", "B", "C", "D", "E", "F", "G", "H", "I", "J", "K", "L", "M",
                 "N", "O", "P", "Q", "R", "S", "T", "U", "V", "W", "X", "Y", "Z" >>
DigitAscii == << "0", "1", "2", "3", "4", "5", "6", "7", "8", "9" >>

Range(f) == { f[i] : i \in DOMAIN f }

IndexOf(seq, c) == CHOOSE i \in DOMAIN seq : seq[i] = c

\* U+00DF sharp s, U+FB01 ligature fi, U+00E9 / U+00C9 e acute, U+4E2D a CJK
\* ideograph (alphabetic, caseless), U+0663 Arabic-Indic digit three (Nd),
\* U+00BD vulgar fraction one half (No).
OtherAlphabetic == { "U+00DF", "U+FB01", "U+00E9", "U+00C9", "U+4E2D" }
OtherNumeric == { "U+0663", "U+00BD" }

is_alphabetic(c) == c \in Range(LowerAscii) \cup Range(UpperAscii) \cup OtherAlphabetic

is_numeric(c) == c \in Range(DigitAscii) \cup OtherNumeric

is_alphanumeric(c) == is_alphabetic(c) \/ is_numeric(c)

\* char::to_uppercase: an iterator of one or more characters.
to_uppercase(c) ==
    IF c \in Range(LowerAscii) THEN << UpperAscii[IndexOf(LowerAscii, c)] >>
    ELSE IF c = "U+00DF" THEN << "S", "S" >>
    ELSE IF c = "U+FB01" THEN << "F", "I" >>
    ELSE IF c = "U+00E9" THEN << "U+00C9" >>
    ELSE << c >>

---------------------------------------------------------------------------
(* {{PROJECT_NAME}}_utils::string *)

capitalize_first_only(s) ==
    IF s = << >> THEN << >> ELSE << Head(to_uppercase(Head(s))) >> \o Tail(s)

RECURSIVE uppercase_all(_)
uppercase_all(s) ==
    IF s = << >> THEN << >> ELSE to_uppercase(Head(s)) \o uppercase_all(Tail(s))

\* let mut chars = s.chars(); match chars.next() { None => String::new(),
\*   Some(first) => first.to_uppercase().collect::<String>() + chars.as_str() }
capitalize(s) ==
    IF s = << >> THEN << >> ELSE to_uppercase(Head(s)) \o Tail(s)

\* Iterator::all over s.chars()
RECURSIVE chars_all_ident(_)
chars_all_ident(s) ==
    IF s = << >> THEN TRUE
    ELSE (is_alphanumeric(Head(s)) \/ Head(s) = "_") /\ chars_all_ident(Tail(s))

is_valid_identifier_any_first(s) ==
    s # << >> /\ chars_all_ident(s)

is_valid_identifier(s) ==
    /\ s # << >>
    /\ is_alphabetic(Head(s))
    /\ chars_all_ident(s)

---------------------------------------------------------------------------
(* {{PROJECT_NAME}}_core::types *)

ProjectNameToken == << "{{PROJECT_NAME}}" >>

Config_default_zero ==
    [ name |-> ProjectNameToken, debug |-> FALSE, max_concurrent |-> 0 ]

Config_default ==
    [ name |-> ProjectNameToken, debug |-> FALSE, max_concurrent |-> 4 ]

AppState_new_reset(cfg) ==
    [ config |-> Config_default, active_operations |-> 0 ]

AppState_new(cfg) ==
    [ config |-> cfg, active_operations |-> 0 ]

---------------------------------------------------------------------------
(* Formatting *)

\* Display for bool
fmt_bool(b) == IF b THEN << "true" >> ELSE << "false" >>

\* Display for usize: decimal digits
RECURSIVE fmt_usize(_)
fmt_usize(n) ==
    IF n < 10 THEN << DigitAscii[n + 1] >>
    ELSE fmt_usize(n \div 10) \o << DigitAscii[(n % 10) + 1] >>

\* #[derive(Debug)] on Config, as {:?} prints it
fmt_debug_Config(c) ==
    << "Config { name: ", "\"" >> \o c.name \o << "\"", ", debug: " >> \o fmt_bool(c.debug)
        \o << ", max_concurrent: " >> \o fmt_usize(c.max_concurrent) \o << " }" >>

\* logging::info: println!("[INFO] {}", msg)
info(msg) == << "[INFO] " >> \o msg

\* #[error(...)] Display of the core Error variants; an anyhow message error
\* and a std::io::Error display their own message.
Error_display(e) ==
    IF e.variant = "Error::Io" THEN << "IO error: " >> \o e.msg
    ELSE IF e.variant = "Error::Config" THEN << "Configuration error: " >> \o e.msg
    ELSE e.msg

Pending == [ state |-> "pending", variant |-> "", msg |-> << >> ]
Ok == [ state |-> "Ok", variant |-> "", msg |-> << >> ]
Err(variant, msg) == [ state |-> "Err", variant |-> variant, msg |-> msg ]

\* anyhow::bail!(literal, arg)
bail(msg) == Err("anyhow::msg", msg)

None == << >>
Some(x) == << x >>

---------------------------------------------------------------------------
(* Inputs *)

InputChars == { "a", "Z", "7", "_", "-", "U+00DF", "U+4E2D" }

TextsUpTo(n) == UNION { [1..k -> InputChars] : k \in 0..n }

\* The literals of the unit tests of string.rs and of the Init scenarios.
TestTexts ==
    { << "h", "e", "l", "l", "o" >>, << "W", "O", "R", "L", "D" >>,
      << "f", "o", "o" >>, << "f", "o", "o", "_", "b", "a", "r" >>,
      << "F", "o", "o", "1", "2", "3" >>, << "1", "2", "3", "f", "o", "o" >>,
      << "f", "o", "o", "-", "b", "a", "r" >>, << "m", "y", "-", "a", "p", "p" >> }

Names == TextsUpTo(MaxLen) \cup TestTexts

RunInputs == TextsUpTo(1) \cup { << "f", "o", "o", "-", "b", "a", "r" >> }

ConfigPaths == { << "app.toml" >> }

OptionOf(S) == { None } \cup { Some(x) : x \in S }

CliArgs ==
    { [ debug |-> d, config |-> c, command |-> "Init", name |-> n, input |-> None ] :
        d \in BOOLEAN, c \in OptionOf(ConfigPaths), n \in OptionOf(Names) }
    \cup
    { [ debug |-> d, config |-> c, command |-> "Run", name |-> None, input |-> i ] :
        d \in BOOLEAN, c \in OptionOf(ConfigPaths), i \in OptionOf(RunInputs) }
    \cup
    { [ debug |-> d, config |-> c, command |-> "Status", name |-> None, input |-> None ] :
        d \in BOOLEAN, c \in OptionOf(ConfigPaths) }

NoCli == [ debug |-> FALSE, config |-> None, command |-> "", name |-> None, input |-> None ]

TaskArgs == OptionOf({ "ci", "fmt", "lint", "test", "build", "clean", "bogus" })

\* What Command::status() can give: the spawn fails (an io::Error), or the child
\* ends with an exit code, or the child is killed by a signal (no code).
ProcOutcomes ==
    { [ spawn |-> FALSE, code |-> None ], [ spawn |-> TRUE, code |-> None ] }
    \cup { [ spawn |-> TRUE, code |-> Some(c) ] : c \in 0..MaxExitCode }

\* ExitStatus::success
success(o) == o.spawn /\ o.code = Some(0)

ConfigArgs ==
    { [ name |-> n, debug |-> d, max_concurrent |-> m ] :
        n \in { ProjectNameToken, << "a" >> }, d \in BOOLEAN, m \in 0..MaxConcurrentArg }

NoCall == [ fn |-> "none", arg |-> << >>, val |-> << >> ]

---------------------------------------------------------------------------
(* Initial states: one invocation of one entry point *)

Init ==
    /\ prog \in { "cli", "xtask", "lib" }
    /\ cli \in (IF prog = "cli" THEN CliArgs ELSE { NoCli })
    /\ task \in (IF prog = "xtask" THEN TaskArgs ELSE { None })
    /\ pc = (IF prog = "cli" THEN "utils_init" ELSE IF prog = "xtask" THEN "xtask_main" ELSE "lib")
    /\ config = None
    /\ result = Pending
    /\ stdout = << >>
    /\ stderr = << >>
    /\ exit_code = None
    /\ spawned = << >>
    /\ ret = NoCall

---------------------------------------------------------------------------
(* {{PROJECT_NAME}}_cli main *)

\* {{PROJECT_NAME}}_utils::init()?  ->  logging::init()
utils_init ==
    /\ prog = "cli" /\ pc = "utils_init"
    /\ stdout' = Append(stdout, << "Logging initialized" >>)
    /\ pc' = "debug_flag"
    /\ UNCHANGED << prog, cli, task, config, result, stderr, exit_code, spawned, ret >>

\* if cli.debug { logging::info("Debug mode enabled"); }
debug_flag ==
    /\ prog = "cli" /\ pc = "debug_flag"
    /\ stdout' = (IF cli.debug THEN Append(stdout, info(<< "Debug mode enabled" >>)) ELSE stdout)
    /\ pc' = "load_config"
    /\ UNCHANGED << prog, cli, task, config, result, stderr, exit_code, spawned, ret >>

\* let config = if let Some(config_path) = cli.config { ...; Config::default() }
\*              else { Config::default() };
load_config ==
    /\ prog = "cli" /\ pc = "load_config"
    /\ stdout' = (IF cli.config # None
                  THEN Append(stdout, info(<< "Loading config from: " >> \o cli.config[1]))
                  ELSE stdout)
    /\ config' = Some(Config_default)
    /\ pc' = "core_init"
    /\ UNCHANGED << prog, cli, task, result, stderr, exit_code, spawned, ret >>

\* core::init()?
core_init ==
    /\ prog = "cli" /\ pc = "core_init"
    /\ stdout' = Append(stdout, << "Initializing core system" >>)
    /\ pc' = "dispatch"
    /\ UNCHANGED << prog, cli, task, config, result, stderr, exit_code, spawned, ret >>

DefaultProjectName_hyphen == << "m", "y", "-", "p", "r", "o", "j", "e", "c", "t" >>

\* name.unwrap_or_else(|| "my_project".to_string())
DefaultProjectName == << "m", "y", "_", "p", "r", "o", "j", "e", "c", "t" >>

ResolveName(name) == IF name = None THEN DefaultProjectName ELSE name[1]

InvalidNameError_capitalized(project_name, capitalized) ==
    bail(<< "Invalid project name: " >> \o capitalized)

\* anyhow::bail!("Invalid project name: {}", project_name)
InvalidNameError(project_name, capitalized) ==
    bail(<< "Invalid project name: " >> \o project_name)

SuccessLine(capitalized) == << "Project '" >> \o capitalized \o << "' initialized successfully!" >>

\* Commands::Init { name }
CmdInit ==
    /\ prog = "cli" /\ pc = "dispatch" /\ cli.command = "Init"
    /\ LET project_name == ResolveName(cli.name)
           capitalized == capitalize(project_name)
           logged == Append(stdout, info(<< "Initializing project: " >> \o capitalized))
       IN  IF ~is_valid_identifier(project_name)
           THEN /\ stdout' = logged
                /\ result' = InvalidNameError(project_name, capitalized)
           ELSE /\ stdout' = Append(logged, SuccessLine(capitalized))
                /\ result' = Ok
    /\ pc' = "return"
    /\ UNCHANGED << prog, cli, task, config, stderr, exit_code, spawned, ret >>

RunResult_validating(input) ==
    IF input # None /\ ~is_valid_identifier(input[1])
    THEN bail(<< "Invalid input: " >> \o input[1])
    ELSE Ok

\* The Run arm has no early return: control falls through to Ok(()).
RunResult(input) == Ok

\* Commands::Run { input }
CmdRun ==
    /\ prog = "cli" /\ pc = "dispatch" /\ cli.command = "Run"
    /\ LET logged == Append(stdout, info(<< "Running application" >>))
           r == RunResult(cli.input)
       IN  /\ result' = r
           /\ stdout' =
                IF r.state = "Err" THEN logged
                ELSE logged \o
                     << (IF cli.input # None
                         THEN << "Processing input file: " >> \o cli.input[1]
                         ELSE << "Running with default configuration" >>),
                        << "Application completed successfully!" >> >>
    /\ pc' = "return"
    /\ UNCHANGED << prog, cli, task, config, stderr, exit_code, spawned, ret >>

\* Commands::Status
CmdStatus ==
    /\ prog = "cli" /\ pc = "dispatch" /\ cli.command = "Status"
    /\ stdout' = stdout \o
         << << "{{PROJECT_NAME}} Status:" >>,
            << "  Version: ", "{CARGO_PKG_VERSION}" >>,
            << "  Debug: " >> \o fmt_bool(cli.debug),
            << "  Config: " >> \o fmt_debug_Config(config[1]) >>
    /\ result' = Ok
    /\ pc' = "return"
    /\ UNCHANGED << prog, cli, task, config, stderr, exit_code, spawned, ret >>

\* fn main() -> Result<()>: Ok(()) exits 0; Err(e) prints "Error: {e:?}" on the
\* standard error and exits 1.
main_return ==
    /\ pc = "return"
    /\ IF result.state = "Err"
       THEN /\ stderr' = Append(stderr, << "Error: " >> \o Error_display(result))
            /\ exit_code' = Some(1)
       ELSE /\ stderr' = stderr
            /\ exit_code' = Some(0)
    /\ pc' = "exited"
    /\ UNCHANGED << prog, cli, task, config, result, stdout, spawned, ret >>

---------------------------------------------------------------------------
(* xtask main *)

\* match task.as_deref() { Some("ci") => ci(), ..., _ => print_help() }
xtask_main ==
    /\ prog = "xtask" /\ pc = "xtask_main"
    /\ pc' = (IF task \in { Some("ci"), Some("fmt"), Some("lint"), Some("test"),
                            Some("build"), Some("clean") }
              THEN task[1] ELSE "print_help")
    /\ UNCHANGED << prog, cli, task, config, result, stdout, stderr, exit_code, spawned, ret >>

print_help ==
    /\ prog = "xtask" /\ pc = "print_help"
    /\ stdout' = stdout \o
         << << "xtask - Build automation for {{PROJECT_NAME}}" >>, << >>,
            << "USAGE:" >>, << "    cargo xtask <TASK>" >>, << >>,
            << "TASKS:" >>,
            << "    ci      Run complete CI pipeline" >>,
            << "    fmt     Format code" >>,
            << "    lint    Run clippy lints" >>,
            << "    test    Run tests" >>,
            << "    build   Build all crates" >>,
            << "    clean   Clean build artifacts" >> >>
    /\ result' = Ok
    /\ pc' = "return"
    /\ UNCHANGED << prog, cli, task, config, stderr, exit_code, spawned, ret >>

\* ci(): println!("Running CI pipeline..."); then fmt()?
ci ==
    /\ prog = "xtask" /\ pc = "ci"
    /\ stdout' = Append(stdout, << "Running CI pipeline..." >>)
    /\ pc' = "ci_fmt"
    /\ UNCHANGED << prog, cli, task, config, result, stderr, exit_code, spawned, ret >>

ToolResult_ignore_status(o, failure) ==
    IF ~o.spawn THEN Err("std::io::Error", << "No such file or directory (os error 2)" >>)
    ELSE Ok

\* let status = Command::new("cargo").args([...]).status()?;
\* if !status.success() { anyhow::bail!("cargo ... failed"); }  Ok(())
ToolResult(o, failure) ==
    IF ~o.spawn THEN Err("std::io::Error", << "No such file or directory (os error 2)" >>)
    ELSE IF ~success(o) THEN bail(<< failure >>)
    ELSE Ok

\* One of fmt(), lint(), test(), build(), clean(): called from main (pc = tool)
\* or from ci() (pc = in_ci), where `?` returns the error from ci() and Ok(())
\* goes on to the next statement of ci().
RunTool(tool, in_ci, next_in_ci, announce, cargo_args, failure, o) ==
    /\ pc \in { tool, in_ci }
    /\ stdout' = Append(stdout, << announce >>)
    /\ spawned' = Append(spawned, [ tool |-> tool, args |-> cargo_args, outcome |-> o ])
    /\ LET r == ToolResult(o, failure)
       IN  IF r.state = "Err" THEN result' = r /\ pc' = "return"
           ELSE IF pc = in_ci THEN result' = result /\ pc' = next_in_ci
           ELSE result' = Ok /\ pc' = "return"
    /\ UNCHANGED << prog, cli, task, config, stderr, exit_code, ret >>

fmt ==
    \E o \in ProcOutcomes :
        /\ prog = "xtask"
        /\ RunTool("fmt", "ci_fmt", "ci_lint", "Formatting code...",
                << "cargo", "fmt", "--all" >>, "cargo fmt failed", o)

lint ==
    \E o \in ProcOutcomes :
        /\ prog = "xtask"
        /\ RunTool("lint", "ci_lint", "ci_test", "Running lints...",
                << "cargo", "clippy", "--all-targets", "--all-features", "--", "-D", "warnings" >>,
                "cargo clippy failed", o)

test ==
    \E o \in ProcOutcomes :
        /\ prog = "xtask"
        /\ RunTool("test", "ci_test", "ci_build", "Running tests...",
                << "cargo", "test", "--all-features" >>, "cargo test failed", o)

build ==
    \E o \in ProcOutcomes :
        /\ prog = "xtask"
        /\ RunTool("build", "ci_build", "ci_end", "Building all crates...",
                << "cargo", "build", "--all-targets", "--all-features" >>,
                "cargo build failed", o)

\* clean() is not a step of ci(): it is reached from main only.
clean ==
    \E o \in ProcOutcomes :
        /\ prog = "xtask"
        /\ RunTool("clean", "clean", "return", "Cleaning build artifacts...",
                << "cargo", "clean" >>, "cargo clean failed", o)

\* ci(): println!("CI pipeline completed successfully!"); Ok(())
ci_end ==
    /\ prog = "xtask" /\ pc = "ci_end"
    /\ stdout' = Append(stdout, << "CI pipeline completed successfully!" >>)
    /\ result' = Ok
    /\ pc' = "return"
    /\ UNCHANGED << prog, cli, task, config, stderr, exit_code, spawned, ret >>

---------------------------------------------------------------------------
(* Library functions called on their own, as the unit tests call them *)

call_capitalize ==
    /\ prog = "lib"
    /\ \E s \in Names : ret' = [ fn |-> "capitalize", arg |-> s, val |-> capitalize(s) ]
    /\ UNCHANGED << prog, cli, task, pc, config, result, stdout, stderr, exit_code, spawned >>

call_is_valid_identifier ==
    /\ prog = "lib"
    /\ \E s \in Names :
         ret' = [ fn |-> "is_valid_identifier", arg |-> s, val |-> is_valid_identifier(s) ]
    /\ UNCHANGED << prog, cli, task, pc, config, result, stdout, stderr, exit_code, spawned >>

call_AppState_new ==
    /\ prog = "lib"
    /\ \E c \in ConfigArgs \cup { Config_default } :
         ret' = [ fn |-> "AppState::new", arg |-> c, val |-> AppState_new(c) ]
    /\ UNCHANGED << prog, cli, task, pc, config, result, stdout, stderr, exit_code, spawned >>

---------------------------------------------------------------------------

Next ==
    \/ utils_init
    \/ debug_flag
    \/ load_config
    \/ core_init
    \/ CmdInit
    \/ CmdRun
    \/ CmdStatus
    \/ main_return
    \/ xtask_main
    \/ print_help
    \/ ci
    \/ fmt
    \/ lint
    \/ test
    \/ build
    \/ clean
    \/ ci_end
    \/ call_capitalize
    \/ call_is_valid_identifier
    \/ call_AppState_new

Spec == Init /\ [][Next]_vars

---------------------------------------------------------------------------
(* Vocabulary of the properties *)

\* Non-empty, first character alphabetic, every character alphanumeric or '_'.
IsIdentifierText(s) ==
    /\ Len(s) >= 1
    /\ is_alphabetic(s[1])
    /\ \A i \in 1..Len(s) : is_alphanumeric(s[i]) \/ s[i] = "_"

\* `sub` occurs in `line` as a contiguous run of tokens.
Contains(line, sub) ==
    \E i \in 1..(Len(line) + 1) :
        /\ i + Len(sub) - 1 <= Len(line)
        /\ SubSeq(line, i, i + Len(sub) - 1) = sub

\* The name the Init command works on: the supplied one, or the fallback literal.
ResolvedName ==
    IF cli.name = None THEN << "m", "y", "_", "p", "r", "o", "j", "e", "c", "t" >>
    ELSE cli.name[1]

InitDispatched == prog = "cli" /\ cli.command = "Init" /\ pc \in { "return", "exited" }

\* The lines the command arm printed: those after core::init()'s line, the last
\* line of the startup sequence.
CommandOutput ==
    IF \E i \in 1..Len(stdout) : stdout[i] = << "Initializing core system" >>
    THEN LET k == CHOOSE i \in 1..Len(stdout) : stdout[i] = << "Initializing core system" >>
         IN  SubSeq(stdout, k + 1, Len(stdout))
    ELSE << >>

\* The tokens printed as a debug value: after "  Debug: " and after ", debug: ".
DebugValuesShown ==
    { line[i + 1] : <<line, i>> \in
        { <<l, j>> \in Range(stdout) \X (1..12) :
             j < Len(l) /\ l[j] \in { "  Debug: ", ", debug: " } } }

---------------------------------------------------------------------------
(* Properties *)

\* C1: is_valid_identifier(s) is true exactly when s is non-empty, its first
\* character is alphabetic and every character is alphanumeric or '_'; the empty
\* text, a leading digit or underscore, and a '-' anywhere are rejected.
C1_IsValidIdentifier ==
    ret.fn = "is_valid_identifier" =>
        /\ ret.val = IsIdentifierText(ret.arg)
        /\ ret.arg = << >> => ret.val = FALSE
        /\ (ret.arg # << >> /\ (ret.arg[1] \in Range(DigitAscii) \/ ret.arg[1] = "_"))
              => ret.val = FALSE
        /\ "-" \in Range(ret.arg) => ret.val = FALSE

C1_Witness ==
    /\ ret.fn = "is_valid_identifier"
    /\ ret.arg = << "_", "a" >>
    /\ ret.val = FALSE

\* C2: capitalize(s) is the uppercase mapping of the first character (one or
\* more characters) followed by the remaining characters of s, unchanged and in
\* order; capitalize of the empty text is the empty text.
C2_Capitalize ==
    ret.fn = "capitalize" =>
        IF ret.arg = << >> THEN ret.val = << >>
        ELSE LET up == to_uppercase(ret.arg[1])
             IN  /\ Len(ret.val) = Len(up) + Len(ret.arg) - 1
                 /\ SubSeq(ret.val, 1, Len(up)) = up
                 /\ \A i \in 2..Len(ret.arg) : ret.val[Len(up) + i - 1] = ret.arg[i]

C2_Witness ==
    /\ ret.fn = "capitalize"
    /\ ret.arg = << "U+00DF", "a" >>
    /\ ret.val = << "S", "S", "a" >>

C4_Original ==
    (prog = "cli" /\ result.state = "Err") => CommandOutput = << >>

\* C5: after Init, the line "Project '<capitalize(n)>' initialized
\* successfully!" is on the standard output exactly when the resolved name n is a
\* valid identifier; with no name supplied Init succeeds and the line holds
\* "My_project".
C5_InitSuccess ==
    InitDispatched =>
        /\ (<< "Project '" >> \o capitalize(ResolvedName)
               \o << "' initialized successfully!" >> \in Range(stdout))
             <=> IsIdentifierText(ResolvedName)
        /\ (\E l \in Range(stdout) : l # << >> /\ l[1] = "Project '")
             => IsIdentifierText(ResolvedName)
        /\ cli.name = None =>
             /\ result.state = "Ok"
             /\ \E l \in Range(stdout) :
                    /\ l[1] = "Project '"
                    /\ Contains(l, << "M", "y", "_", "p", "r", "o", "j", "e", "c", "t" >>)

C5_Witness ==
    /\ InitDispatched /\ pc = "exited"
    /\ cli.name = None
    /\ exit_code = Some(0)
    /\ << "Project '", "M", "y", "_", "p", "r", "o", "j", "e", "c", "t",
          "' initialized successfully!" >> \in Range(stdout)

\* C6: an invocation of the command-line program fails (Err, non-zero exit)
\* exactly when the command is Init and its resolved name is not a valid
\* identifier; Run and Status succeed for every input, debug flag and config path.
C6_OneFailurePath ==
    (prog = "cli" /\ pc \in { "return", "exited" }) =>
        /\ result.state = "Err" <=> (cli.command = "Init" /\ ~IsIdentifierText(ResolvedName))
        /\ result.state \in { "Ok", "Err" }
        /\ pc = "exited" =>
             exit_code = (IF cli.command = "Init" /\ ~IsIdentifierText(ResolvedName)
                          THEN Some(1) ELSE Some(0))

C6_Witness ==
    /\ prog = "cli" /\ pc = "exited"
    /\ cli.command = "Run"
    /\ cli.input = Some(<< "f", "o", "o", "-", "b", "a", "r" >>)
    /\ exit_code = Some(0)

\* C7 as claimed: the Status output shows max_concurrent 4, and every debug
\* value it shows equals the debug flag supplied.
C7_Original ==
    (prog = "cli" /\ cli.command = "Status" /\ pc \in { "return", "exited" }) =>
        /\ \E l \in Range(stdout) : Contains(l, << ", max_concurrent: ", "4" >>)
        /\ DebugValuesShown # { }
        /\ \A v \in DebugValuesShown : v = (IF cli.debug THEN "true" ELSE "false")

\* C8: the configuration of an invocation is unbound until it is loaded and from
\* then on is the default instance (debug false, max_concurrent 4, so >= 1),
\* with or without a config path and after every command; AppState::new(config)
\* keeps its config and starts active_operations at 0.
C8_ConfigInvariant ==
    /\ prog = "cli" =>
         IF pc \in { "utils_init", "debug_flag", "load_config" }
         THEN config = None
         ELSE /\ config = Some([ name |-> << "{{PROJECT_NAME}}" >>, debug |-> FALSE,
                                 max_concurrent |-> 4 ])
              /\ config[1].max_concurrent >= 1
    /\ prog # "cli" => config = None
    /\ ret.fn = "AppState::new" =>
         /\ ret.val.config = ret.arg
         /\ ret.val.active_operations = 0

C8_Witness ==
    /\ prog = "cli" /\ pc = "exited"
    /\ cli.command = "Status" /\ cli.debug /\ cli.config # None
    /\ config # None /\ config[1].max_concurrent = 4 /\ ~config[1].debug

\* C9: when the first character of a non-empty s is its own uppercase mapping,
\* capitalize(s) = s, so capitalize applied again changes nothing; "WORLD" is
\* left unchanged.
C9_CapitalizeFixed ==
    ret.fn = "capitalize" =>
        /\ (ret.arg # << >> /\ to_uppercase(ret.arg[1]) = << ret.arg[1] >>) =>
             /\ ret.val = ret.arg
             /\ capitalize(ret.val) = ret.val
        /\ ret.arg = << "W", "O", "R", "L", "D" >> => ret.val = << "W", "O", "R", "L", "D" >>

C9_Witness ==
    /\ ret.fn = "capitalize"
    /\ ret.arg = << "Z", "a" >>
    /\ ret.val = << "Z", "a" >>

\* C10: xtask ci starts its steps in the order fmt, lint, test, build; a step is
\* started only after every earlier one succeeded; the first step that fails or
\* cannot be spawned ends the run with an error and no later step; "CI pipeline
\* completed successfully!" is printed only after all four succeeded.
C10_CiPipeline ==
    (prog = "xtask" /\ task = Some("ci")) =>
        LET order == << "fmt", "lint", "test", "build" >>
            ok(i) == spawned[i].outcome.spawn /\ spawned[i].outcome.code = Some(0)
            n == Len(spawned)
        IN  /\ n <= 4
            /\ \A i \in 1..n : spawned[i].tool = order[i]
            /\ \A i \in 1..n : i < n => ok(i)
            /\ (n > 0 /\ ~ok(n)) =>
                 /\ pc \in { "return", "exited" }
                 /\ result.state = "Err"
                 /\ pc = "exited" => exit_code = Some(1)
            /\ << "CI pipeline completed successfully!" >> \in Range(stdout) =>
                 /\ n = 4
                 /\ \A i \in 1..4 : ok(i)
            /\ (pc = "exited" /\ n = 4 /\ ok(4)) =>
                 /\ << "CI pipeline completed successfully!" >> \in Range(stdout)
                 /\ exit_code = Some(0)

C10_Witness ==
    /\ prog = "xtask" /\ task = Some("ci") /\ pc = "exited"
    /\ Len(spawned) = 2
    /\ spawned[2].tool = "lint" /\ ~spawned[2].outcome.spawn
    /\ exit_code = Some(1)

====
